---- MODULE Spec2Model ----
(***************************************************************************)
(* URL shortener backend (url-shortener-backend/server.js).                *)
(*                                                                         *)
(* The Express handlers of server.js are modelled step by step: one step   *)
(* per await of a handler, the response being sent by the step that ends   *)
(* the handler.  The data access layer (urlService.js) and the table it    *)
(* queries are not part of the sources at hand; they are modelled from the *)
(* written specification (sections 3, 4.1 and 5) and marked as such.       *)
(*                                                                         *)
(* Strings are TLA+ strings; trimming, substring search and URL parsing    *)
(* are computed on their characters.                                       *)
(***************************************************************************)
EXTENDS Integers, Sequences, FiniteSets, TLC

(***************************************************************************)
(* Bounds of the model.                                                    *)
(***************************************************************************)
\* the clock runs from 0 to MaxTime
MaxTime == 1
\* at most MaxRequests requests arrive
MaxRequests == 3

(***************************************************************************)
(* Optional values: <<>> is null / undefined, <<v>> is the value v.        *)
(***************************************************************************)
None == <<>>
Some(v) == <<v>>

(***************************************************************************)
(* String helpers (String.prototype.trim, String.prototype.includes).      *)
(***************************************************************************)
CharAt(s, i) == SubSeq(s, i, i)

RECURSIVE TrimStart(_)
TrimStart(s) ==
    IF Len(s) > 0 /\ CharAt(s, 1) = " " THEN TrimStart(SubSeq(s, 2, Len(s))) ELSE s

RECURSIVE TrimEnd(_)
TrimEnd(s) ==
    IF Len(s) > 0 /\ CharAt(s, Len(s)) = " "
    THEN TrimEnd(SubSeq(s, 1, Len(s) - 1)) ELSE s

\* url.trim()
Trim(s) == TrimEnd(TrimStart(s))

\* string.includes(sub)
Includes(s, sub) ==
    \E i \in 1..(Len(s) - Len(sub) + 1) : SubSeq(s, i, i + Len(sub) - 1) = sub

\* index of the first occurrence of the character ch in s, 0 when there is none
IndexOf(s, ch) ==
    IF \E i \in 1..Len(s) : CharAt(s, i) = ch
    THEN CHOOSE i \in 1..Len(s) :
            /\ CharAt(s, i) = ch
            /\ \A j \in 1..(i - 1) : CharAt(s, j) # ch
    ELSE 0

(***************************************************************************)
(* new URL(string), with no base: the string must be an absolute URL, that *)
(* is a scheme (a letter, then letters, digits, "+", "-", "."), a ":" and, *)
(* for the special schemes, a non-empty host.  Leading and trailing spaces *)
(* are stripped by the parser itself.                                      *)
(***************************************************************************)
Letters == {"a", "b", "c", "d", "e", "f", "g", "h", "i", "j", "k", "l", "m",
            "n", "o", "p", "q", "r", "s", "t", "u", "v", "w", "x", "y", "z"}
SchemeChars == Letters \cup {"0", "1", "2", "3", "4", "5", "6", "7", "8", "9",
                             "+", "-", "."}
SpecialSchemes == {"http", "https", "ftp", "ws", "wss"}

RECURSIVE SkipSlashes(_)
SkipSlashes(s) ==
    IF Len(s) > 0 /\ CharAt(s, 1) \in {"/", "\\"}
    THEN SkipSlashes(SubSeq(s, 2, Len(s))) ELSE s

\* the characters of s before the first of "/", ":", "?", "#"
RECURSIVE HostPrefix(_)
HostPrefix(s) ==
    IF Len(s) = 0 \/ CharAt(s, 1) \in {"/", ":", "?", "#", "\\"}
    THEN ""
    ELSE CharAt(s, 1) \o HostPrefix(SubSeq(s, 2, Len(s)))

Scheme(s) == SubSeq(s, 1, IndexOf(s, ":") - 1)
AfterScheme(s) == SubSeq(s, IndexOf(s, ":") + 1, Len(s))

\* the host of an absolute URL with a special scheme
Host(s) == HostPrefix(SkipSlashes(AfterScheme(Trim(s))))

ParsesAsUrl(string) ==
    LET s == Trim(string)
        k == IndexOf(s, ":")
    IN  /\ k > 1
        /\ CharAt(s, 1) \in Letters
        /\ \A i \in 1..(k - 1) : CharAt(s, i) \in SchemeChars
        /\ Scheme(s) \in SpecialSchemes => Len(Host(s)) > 0

\* isValidUrl(string)
IsValidUrl(string) ==
    IF ParsesAsUrl(string)
    THEN ~(Includes(string, "localhost") \/ Includes(string, "azurewebsites.net"))
    ELSE FALSE

(***************************************************************************)
(* Inputs of the model.                                                    *)
(***************************************************************************)
\* the request slots: requests in flight at the same time
Reqs == {1, 2}
\* the short codes the generator can produce and clients can ask for
Codes == {"k1", "k2"}
\* values of BASE_URL: the default of server.js, and one set by the environment
BaseUrls == {"http://localhost:5000", "http://a.b"}
\* values of req.body.url; None is a body without url
UrlInputs == {None, Some(""), Some("  "), Some("not a url"), Some("http://"),
              Some("http://a.b/x"), Some(" http://a.b/x "), Some("ftp://c"),
              Some("http://localhost/x"), Some("http://s.azurewebsites.net")}
\* values of req.body.expires_at: absent, the empty string, an ISO timestamp
Undefined == [tag |-> "undefined", t |-> 0]
EmptyString == [tag |-> "string", t |-> 0]
IsoTime(t) == [tag |-> "iso", t |-> t]
ExpiresInputs == {Undefined, EmptyString, IsoTime(0)}

(***************************************************************************)
(* State.                                                                  *)
(***************************************************************************)
VARIABLES
    urls,       \* the table urls: a sequence of rows, in insertion order
    now,        \* the clock
    baseUrl,    \* BASE_URL
    req,        \* req[r]: the handler running in slot r and its locals
    last,       \* the response the latest step sent, if it sent one
    issued,     \* history: <<u, c>> when a create of the trimmed URL u answered code c
    redirects,  \* history: redirects[c] is the number of 302 answers sent for c
    firstExpired,   \* history: firstExpired[c] is set when a GET of c first fails Expired
    started     \* the number of requests that have arrived

vars == <<urls, now, baseUrl, req, last, issued, redirects, firstExpired, started>>

Idle ==
    [kind |-> "idle", pc |-> "idle", url |-> "", code |-> "", exp |-> None,
     row |-> None, clicked |-> FALSE, collided |-> FALSE, want |-> ""]

NoResponse ==
    [kind |-> "none", status |-> 0, code |-> "", url |-> "", message |-> "",
     rows |-> <<>>, err |-> None, retried |-> FALSE]

Response(kind, status, code, url, message, rows, err) ==
    [kind |-> kind, status |-> status, code |-> code, url |-> url,
     message |-> message, rows |-> rows, err |-> err, retried |-> FALSE]

(***************************************************************************)
(* The table and the data access layer (urlService.js), from the written   *)
(* specification: section 3 (data model), 4.1 (Link Service), 5.           *)
(***************************************************************************)
Row(shortCode, originalUrl, createdAt, expiresAt) ==
    [short_code |-> shortCode, original_url |-> originalUrl,
     created_at |-> createdAt, expires_at |-> expiresAt, click_count |-> 0]

RowsByUrl(table, url) == {i \in DOMAIN table : table[i].original_url = url}
RowsByCode(table, code) == {i \in DOMAIN table : table[i].short_code = code}

\* errors thrown by the data access layer; a driver error carries no status
NotFoundError == [status |-> "not_found", message |-> "URL not found", expires_at |-> None]
ExpiredError(expiresAt) == [status |-> "expired", message |-> "URL expired", expires_at |-> expiresAt]
StoreError == [status |-> "", message |-> "ConnectionError: database unreachable", expires_at |-> None]

\* the uniqueness constraint on short_code, and none on original_url
InsertOutcome_NoConstraint(table, row) == "ok"

InsertOutcome_UniqueUrl(table, row) ==
    IF RowsByCode(table, row.short_code) # {} \/ RowsByUrl(table, row.original_url) # {}
    THEN "violation" ELSE "ok"

InsertOutcome(table, row) ==
    IF RowsByCode(table, row.short_code) # {} THEN "violation" ELSE "ok"

Insert(table, row) == Append(table, row)

\* expiration: expiresAt is set and now > expiresAt
IsExpired(row, t) == row.expires_at # None /\ t > row.expires_at[1]

\* getUrlByShortCode(shortCode): the row, or the error it throws
GetUrlByShortCode(table, shortCode, t) ==
    IF RowsByCode(table, shortCode) = {}
    THEN [ok |-> FALSE, row |-> None, err |-> NotFoundError]
    ELSE LET row == table[CHOOSE i \in RowsByCode(table, shortCode) : TRUE]
         IN  IF IsExpired(row, t)
             THEN [ok |-> FALSE, row |-> None, err |-> ExpiredError(row.expires_at)]
             ELSE [ok |-> TRUE, row |-> Some(row), err |-> NotFoundError]

\* incrementClickCount(shortCode): click_count = click_count + 1 where short_code matches
IncrementClickCount(table, shortCode) ==
    [i \in DOMAIN table |->
        IF table[i].short_code = shortCode
        THEN [table[i] EXCEPT !.click_count = @ + 1]
        ELSE table[i]]

\* getUrlStats(shortCode): a snapshot of the row, or NotFound; expiration is not looked at
GetUrlStats(table, shortCode) ==
    IF RowsByCode(table, shortCode) = {}
    THEN [ok |-> FALSE, row |-> None, err |-> NotFoundError]
    ELSE [ok |-> TRUE,
          row |-> Some(table[CHOOSE i \in RowsByCode(table, shortCode) : TRUE]),
          err |-> NotFoundError]

(***************************************************************************)
(* Sending a response ends the handler of slot r.                          *)
(***************************************************************************)
\* a request is taken by the first free slot (the slots are interchangeable)
Free(r) == req[r] = Idle /\ \A q \in Reqs : req[q] = Idle => r <= q

\* a request arrives
Arrive == started < MaxRequests /\ started' = started + 1

\* a step that sends no response
Quiet == last' = NoResponse

Send(r, response) ==
    /\ last' = response
    /\ req' = [req EXCEPT ![r] = Idle]

\* a store call either answers or fails with a driver error
StoreAnswers == {TRUE, FALSE}

(***************************************************************************)
(* POST /api/shorten                                                       *)
(***************************************************************************)
\* a variant that passes the URL on untrimmed
TrimmedUrl_NoTrim(url) == IF url # None /\ url[1] # "" THEN url ELSE None

\* url = url ? url.trim() : null
TrimmedUrl(url) == IF url # None /\ url[1] # "" THEN Some(Trim(url[1])) ELSE None

\* a variant that skips validation of a non-empty URL
Rejected_OnlyEmpty(url) == url = None \/ url[1] = ""

\* !url || !isValidUrl(url)
Rejected(url) == url = None \/ url[1] = "" \/ ~IsValidUrl(url[1])

\* expires_at || null
ExpiresArg(expires_at) ==
    IF expires_at.tag = "undefined" \/ (expires_at.tag = "string" /\ expires_at.t = 0)
    THEN None
    ELSE Some(expires_at.t)

InvalidUrlResponse == Response("shorten", 400, "", "", "Invalid URL", <<>>, None)

\* res.json({ short_url: `${BASE_URL}/${shortCode}`, short_code: shortCode })
ShortenResponse(base, shortCode) ==
    Response("shorten", 200, shortCode, base \o "/" \o shortCode, "", <<>>, None)

\* catch (err): res.status(500).json({ error: 'Failed to shorten' })
ShortenCatch(err) ==
    Response("shorten", 500, "", "", "Failed to shorten", <<>>, Some(err))

\* the request bodies
Bodies == [url : UrlInputs, expires_at : ExpiresInputs]

\* a body, with what the handler computes from it before its first await:
\* the trimmed url, the outcome of validation, the expiration it passes on
\* (want is the body's url trimmed, for the history)
Parse(body) ==
    [body |-> body,
     url |-> TrimmedUrl(body.url),
     rejected |-> Rejected(TrimmedUrl(body.url)),
     expires_at |-> ExpiresArg(body.expires_at),
     want |-> IF body.url = None THEN "" ELSE Trim(body.url[1])]

ShortenRequests == {Parse(body) : body \in Bodies}

\* the handler up to its await, and the dedup lookup of createShortUrl
Shorten(r, parsed) ==
    /\ Free(r) /\ Arrive
    /\ LET url == parsed.url
       IN  IF parsed.rejected
           THEN /\ Send(r, InvalidUrlResponse)
                /\ UNCHANGED <<urls, now, baseUrl, issued, redirects, firstExpired>>
           ELSE \E answers \in StoreAnswers :
                IF ~answers
                THEN /\ Send(r, ShortenCatch(StoreError))
                     /\ UNCHANGED <<urls, now, baseUrl, issued, redirects, firstExpired>>
                ELSE IF RowsByUrl(urls, url[1]) # {}
                THEN \E i \in RowsByUrl(urls, url[1]) :
                        /\ Send(r, ShortenResponse(baseUrl, urls[i].short_code))
                        /\ issued' = issued \cup {<<parsed.want, last'.code>>}
                        /\ UNCHANGED <<urls, now, baseUrl, redirects, firstExpired>>
                ELSE /\ req' = [req EXCEPT ![r] =
                            [Idle EXCEPT !.kind = "shorten", !.pc = "generate",
                                         !.url = url[1],
                                         !.exp = parsed.expires_at,
                                         !.want = parsed.want]]
                     /\ Quiet /\ UNCHANGED <<urls, now, baseUrl, issued, redirects, firstExpired>>

\* createShortUrl: generate a code, check that it is unused, regenerate on collision
CreateGenerate(r) ==
    /\ req[r].kind = "shorten" /\ req[r].pc = "generate"
    /\ UNCHANGED started
    /\ \E answers \in StoreAnswers :
        IF ~answers
        THEN /\ Send(r, ShortenCatch(StoreError))
             /\ UNCHANGED <<urls, now, baseUrl, issued, redirects, firstExpired>>
        ELSE \E c \in Codes :
             /\ IF RowsByCode(urls, c) # {}
                THEN req' = [req EXCEPT ![r].collided = TRUE]
                ELSE req' = [req EXCEPT ![r].pc = "insert", ![r].code = c]
             /\ Quiet /\ UNCHANGED <<urls, now, baseUrl, issued, redirects, firstExpired>>

\* createShortUrl: insert the record; the handler answers the code
CreateInsert(r) ==
    /\ req[r].kind = "shorten" /\ req[r].pc = "insert"
    /\ UNCHANGED started
    /\ \E answers \in StoreAnswers :
        LET row == Row(req[r].code, req[r].url, now, req[r].exp)
        IN  IF ~answers
            THEN /\ Send(r, ShortenCatch(StoreError))
                 /\ UNCHANGED <<urls, now, baseUrl, issued, redirects, firstExpired>>
            ELSE IF InsertOutcome(urls, row) # "ok"
            THEN /\ Send(r, ShortenCatch([StoreError EXCEPT !.message = "Violation of UNIQUE KEY constraint"]))
                 /\ UNCHANGED <<urls, now, baseUrl, issued, redirects, firstExpired>>
            ELSE /\ urls' = Insert(urls, row)
                 /\ Send(r, [ShortenResponse(baseUrl, req[r].code)
                                EXCEPT !.retried = req[r].collided])
                 /\ issued' = issued \cup {<<req[r].want, last'.code>>}
                 /\ UNCHANGED <<now, baseUrl, redirects, firstExpired>>

(***************************************************************************)
(* GET /:shortCode                                                         *)
(***************************************************************************)
\* a variant that counts the click before looking the code up
RedirectCalls_IncrementFirst == <<"incrementClickCount", "getUrlByShortCode">>

\* the awaits of the handler, in order; res.redirect follows the last
RedirectCalls == <<"getUrlByShortCode", "incrementClickCount">>

\* a variant that redirects as soon as the lookup has answered
AfterCall_SkipIncrement(call) == "send"

AfterCall(call) ==
    LET i == CHOOSE k \in DOMAIN RedirectCalls : RedirectCalls[k] = call
    IN  IF i < Len(RedirectCalls) THEN RedirectCalls[i + 1] ELSE "send"

\* a variant that redirects on every error
RedirectCatch_Always302(shortCode, err) ==
    Response("redirect", 302, shortCode, "", "", <<>>, Some(err))

\* catch (err): 410 and the expiry page when err.status === 'expired', else 404
RedirectCatch(shortCode, err) ==
    IF err.status = "expired"
    THEN Response("redirect", 410, shortCode, "", "Link Expired", <<>>, Some(err))
    ELSE Response("redirect", 404, shortCode, "", "Not Found", <<>>, Some(err))

\* a variant that redirects to the short link itself
RedirectResponse_ToShortCode(shortCode, row) ==
    Response("redirect", 302, shortCode, row.short_code, "", <<>>, None)

\* res.redirect(row.original_url)
RedirectResponse(shortCode, row) ==
    Response("redirect", 302, shortCode, row.original_url, "", <<>>, None)

\* history only: the click count of c, and the number of GET handlers of c that hold
\* the row of a lookup and have not yet counted their click
ClicksOf(table, c) ==
    IF RowsByCode(table, c) = {} THEN 0
    ELSE table[CHOOSE i \in RowsByCode(table, c) : TRUE].click_count

Pending(c) ==
    Cardinality({q \in Reqs : /\ req[q].kind = "redirect" /\ req[q].code = c
                              /\ req[q].row # None /\ ~req[q].clicked})

\* one await of the handler: rq is the handler's state before the call
RedirectCall(r, rq) ==
    \E answers \in StoreAnswers :
        IF ~answers
        THEN /\ req' = [req EXCEPT ![r] = Idle]
             /\ last' = RedirectCatch(rq.code, StoreError)
             /\ UNCHANGED <<urls, now, baseUrl, issued, redirects, firstExpired>>
        ELSE IF rq.pc = "getUrlByShortCode"
        THEN LET got == GetUrlByShortCode(urls, rq.code, now)
             IN  IF got.ok
                 THEN /\ req' = [req EXCEPT ![r] =
                             [rq EXCEPT !.row = got.row, !.pc = AfterCall(rq.pc)]]
                      /\ Quiet /\ UNCHANGED <<urls, now, baseUrl, issued, redirects, firstExpired>>
                 ELSE /\ req' = [req EXCEPT ![r] = Idle]
                      /\ last' = RedirectCatch(rq.code, got.err)
                      /\ firstExpired' =
                            IF got.err.status = "expired" /\ firstExpired[rq.code] = None
                            THEN [firstExpired EXCEPT ![rq.code] =
                                    Some([clicks |-> ClicksOf(urls, rq.code),
                                          pending |-> Pending(rq.code),
                                          arrived |-> started'])]
                            ELSE firstExpired
                      /\ UNCHANGED <<urls, now, baseUrl, issued, redirects>>
        ELSE /\ rq.pc = "incrementClickCount"
             /\ urls' = IncrementClickCount(urls, rq.code)
             /\ req' = [req EXCEPT ![r] =
                    [rq EXCEPT !.clicked = TRUE, !.pc = AfterCall(rq.pc)]]
             /\ Quiet /\ UNCHANGED <<now, baseUrl, issued, redirects, firstExpired>>

\* the request arrives and the handler runs up to the answer of its first await
Redirect(r, shortCode) ==
    /\ Free(r) /\ Arrive
    /\ RedirectCall(r, [Idle EXCEPT !.kind = "redirect", !.code = shortCode,
                                    !.pc = RedirectCalls[1]])

\* the handler resumes with its next await
RedirectNext(r) ==
    /\ req[r].kind = "redirect"
    /\ req[r].pc \in {"getUrlByShortCode", "incrementClickCount"}
    /\ UNCHANGED started
    /\ RedirectCall(r, req[r])

\* the handler resumes after its last await and redirects
RedirectSend(r) ==
    /\ req[r].kind = "redirect" /\ req[r].pc = "send"
    /\ UNCHANGED started
    /\ Send(r, RedirectResponse(req[r].code, req[r].row[1]))
    /\ redirects' = [redirects EXCEPT ![req[r].code] = @ + 1]
    /\ UNCHANGED <<urls, now, baseUrl, issued, firstExpired>>

(***************************************************************************)
(* GET /api/stats/:shortCode                                               *)
(***************************************************************************)
\* res.json(stats)
StatsResponse(shortCode, stats) ==
    Response("stats", 200, shortCode, "", "", <<stats>>, None)

\* a variant that answers 500
StatsCatch_500(shortCode, err) ==
    Response("stats", 500, shortCode, "", "Not found", <<>>, Some(err))

\* catch (err): res.status(404).json({ error: 'Not found' })
StatsCatch(shortCode, err) ==
    Response("stats", 404, shortCode, "", "Not found", <<>>, Some(err))

Stats(r, shortCode) ==
    /\ Free(r) /\ Arrive
    /\ \E answers \in StoreAnswers :
        LET got == GetUrlStats(urls, shortCode)
        IN  IF ~answers
            THEN Send(r, StatsCatch(shortCode, StoreError))
            ELSE IF got.ok
            THEN Send(r, StatsResponse(shortCode, got.row[1]))
            ELSE Send(r, StatsCatch(shortCode, got.err))
    /\ UNCHANGED <<urls, now, baseUrl, issued, redirects, firstExpired>>

(***************************************************************************)
(* GET /api/qr/:shortCode, GET /api/debug/urls                             *)
(***************************************************************************)
\* QRCode.toFileStream(res, `${BASE_URL}/${shortCode}`): no store call
Qr(r, shortCode) ==
    /\ Free(r) /\ Arrive
    /\ Send(r, Response("qr", 200, shortCode, baseUrl \o "/" \o shortCode, "", <<>>, None))
    /\ UNCHANGED <<urls, now, baseUrl, issued, redirects, firstExpired>>

\* SELECT short_code, original_url FROM urls
DebugListing(table) ==
    [i \in DOMAIN table |->
        [short_code |-> table[i].short_code, original_url |-> table[i].original_url]]

\* catch (err): res.status(500).json({ error: err.message })
DebugCatch(err) == Response("debug", 500, "", "", err.message, <<>>, Some(err))

Debug(r) ==
    /\ Free(r) /\ Arrive
    /\ \E answers \in StoreAnswers :
        IF answers
        THEN Send(r, Response("debug", 200, "", "", "", DebugListing(urls), None))
        ELSE Send(r, DebugCatch(StoreError))
    /\ UNCHANGED <<urls, now, baseUrl, issued, redirects, firstExpired>>

(***************************************************************************)
(* The clock.                                                              *)
(***************************************************************************)
\* a variant whose clock can also be set back
Tick_AnyDirection ==
    /\ \E t \in 0..MaxTime : t # now /\ now' = t
    /\ Quiet /\ UNCHANGED <<urls, baseUrl, req, issued, redirects, firstExpired, started>>

Tick ==
    /\ now < MaxTime
    /\ now' = now + 1
    /\ Quiet /\ UNCHANGED <<urls, baseUrl, req, issued, redirects, started, firstExpired>>

(***************************************************************************)
(* Specifications.                                                         *)
(***************************************************************************)
Init ==
    /\ urls = <<>>
    /\ now = 0
    /\ baseUrl \in BaseUrls
    /\ req = [r \in Reqs |-> Idle]
    /\ last = NoResponse
    /\ issued = {}
    /\ redirects = [c \in Codes |-> 0]
    /\ firstExpired = [c \in Codes |-> None]
    /\ started = 0

\* a request arrives and its handler runs up to its first await
Arrival ==
    \/ \E r \in Reqs, parsed \in ShortenRequests : Shorten(r, parsed)
    \/ \E r \in Reqs, c \in Codes : Redirect(r, c)
    \/ \E r \in Reqs, c \in Codes : Stats(r, c)
    \/ \E r \in Reqs, c \in Codes : Qr(r, c)
    \/ \E r \in Reqs : Debug(r)

\* a running handler resumes
Resume ==
    \/ \E r \in Reqs : CreateGenerate(r)
    \/ \E r \in Reqs : CreateInsert(r)
    \/ \E r \in Reqs : RedirectNext(r)
    \/ \E r \in Reqs : RedirectSend(r)

Next == Arrival \/ Resume \/ Tick

Spec == Init /\ [][Next]_vars

\* requests handled one after the other: a request arrives only when no handler runs
AllIdle == \A q \in Reqs : req[q] = Idle

NextSeq ==
    \/ \E r \in Reqs, parsed \in ShortenRequests : AllIdle /\ Shorten(r, parsed)
    \/ \E r \in Reqs, c \in Codes : AllIdle /\ Redirect(r, c)
    \/ \E r \in Reqs, c \in Codes : AllIdle /\ Stats(r, c)
    \/ \E r \in Reqs, c \in Codes : AllIdle /\ Qr(r, c)
    \/ \E r \in Reqs : AllIdle /\ Debug(r)
    \/ Resume
    \/ Tick

SpecSeq == Init /\ [][NextSeq]_vars

\* the event loop resumes a handler once the store call it awaits has settled
Fairness == \A r \in Reqs : WF_vars(RedirectNext(r) \/ RedirectSend(r))

SpecFair == Spec /\ Fairness

(***************************************************************************)
(* Properties.                                                             *)
(***************************************************************************)
\* the row of a short code (there is one)
RowOf(shortCode) == urls[CHOOSE i \in RowsByCode(urls, shortCode) : TRUE]

\* the error of the response is a failure of the store call, not a result of it
StoreFailed(response) == response.err # None /\ response.err[1].status = ""

IssuedUrls == {p[1] : p \in issued}
IssuedCodes(u) == {p[2] : p \in issued \cap ({u} \X Codes)}

\* C1: when creates are handled one after the other, all creates whose input trims to
\* the same URL u answer the same short code, and the table holds exactly one row
\* whose original_url is u.
C1_IdempotentDedup ==
    \A u \in IssuedUrls :
        /\ Cardinality(IssuedCodes(u)) = 1
        /\ Cardinality(RowsByUrl(urls, u)) = 1

\* a create has just answered the code of a row inserted by an earlier create
C1_Witness ==
    /\ last.kind = "shorten" /\ last.status = 200
    /\ Len(urls) = 2
    /\ \E i \in DOMAIN urls :
        /\ urls[i].short_code = last.code
        /\ urls[i].created_at < now
        /\ IssuedCodes(urls[i].original_url) = {last.code}

\* C2: a step of GET /c taken before the handler holds a row, while the row of c is
\* expired (expires_at set and before now), changes no row, counts no click and never
\* answers 302; when the store answers the lookup it answers 410 and ends the request.
C2_ExpiredNeverRedirects ==
    [][\A r \in Reqs, c \in Codes :
        ( /\ RowsByCode(urls, c) # {}
          /\ RowOf(c).expires_at # None
          /\ RowOf(c).expires_at[1] < now
          /\ \/ Redirect(r, c)
             \/ RedirectNext(r) /\ req[r].code = c /\ req[r].row = None )
        => /\ urls' = urls
           /\ last'.kind = "redirect" /\ last'.code = c
           /\ last'.status # 302
           /\ ~StoreFailed(last') => last'.status = 410
           /\ req'[r] = Idle
           /\ RowsByCode(urls', c) # {}
    ]_vars

\* an expired row was asked for: 410, and its click count is still what it was
C2_Witness ==
    /\ last.kind = "redirect" /\ last.status = 410
    /\ RowsByCode(urls, last.code) # {}
    /\ RowOf(last.code).expires_at # None
    /\ RowOf(last.code).expires_at[1] < now
    /\ RowOf(last.code).click_count = 1

\* C3: for every short code with no GET /:shortCode request in flight, the click
\* count that stats reports equals the number of 302 answers sent for that code
\* (0 when stats finds no row); 404 and 410 answers add nothing.
ReportedClicks(shortCode) ==
    IF GetUrlStats(urls, shortCode).ok
    THEN GetUrlStats(urls, shortCode).row[1].click_count
    ELSE 0

C3_ClickCountExact ==
    \A c \in Codes :
        (\A q \in Reqs : ~(req[q].kind = "redirect" /\ req[q].code = c))
        => ReportedClicks(c) = redirects[c]

\* two redirects were sent for a code, and no request is in flight
C3_Witness ==
    /\ last.kind = "redirect" /\ last.status = 302
    /\ redirects[last.code] = 2
    /\ ReportedClicks(last.code) = 2
    /\ \A q \in Reqs : req[q] = Idle

\* C4: no two rows of the table have the same short code.
C4_ShortCodeUnique ==
    \A i, j \in DOMAIN urls : urls[i].short_code = urls[j].short_code => i = j

\* a create whose generated code collided has regenerated and inserted a second row
C4_Witness ==
    /\ last.kind = "shorten" /\ last.status = 200 /\ last.retried
    /\ Len(urls) = 2
    /\ urls[2].short_code = last.code

UrlMissingOrMalformed(body) ==
    \/ body.url = None
    \/ Trim(body.url[1]) = ""
    \/ ~ParsesAsUrl(Trim(body.url[1]))

NamesHost(body) ==
    \/ Includes(Trim(body.url[1]), "localhost")
    \/ Includes(Trim(body.url[1]), "azurewebsites.net")

\* the requests, each with what the claim says of its body
Classified ==
    {[parsed |-> Parse(body),
      malformed |-> UrlMissingOrMalformed(body),
      host |-> IF UrlMissingOrMalformed(body) THEN "" ELSE Host(body.url[1]),
      named |-> IF UrlMissingOrMalformed(body) THEN FALSE ELSE NamesHost(body)]
     : body \in Bodies}

RejectedUntouched(r) ==
    /\ last'.kind = "shorten" /\ last'.status = 400 /\ last'.err = None
    /\ req'[r] = Idle
    /\ urls' = urls

C6_OwnHostRejected ==
    [][\A r \in Reqs, given \in Classified :
        ( /\ given.malformed \/ given.host = Host(baseUrl)
          /\ Shorten(r, given.parsed) )
        => RejectedUntouched(r)
    ]_vars

\* C6, amended: a create whose url is missing, empty after trimming, not an absolute
\* URL, or contains "localhost" or "azurewebsites.net" is answered 400, without a
\* call of the data access layer and without a change of the table.
C6_InvalidInputRejected ==
    [][\A r \in Reqs, given \in Classified :
        ( /\ given.malformed \/ given.named
          /\ Shorten(r, given.parsed) )
        => RejectedUntouched(r)
    ]_vars

\* a create was answered 400 while the table holds a row and another create runs
C6_Witness ==
    /\ last.kind = "shorten" /\ last.status = 400
    /\ Len(urls) = 1
    /\ \E q \in Reqs : req[q].kind = "shorten"

\* C7: a response to a request whose store call failed has status 500 and a message
\* that is not the message of the error; it is never a 404.
C7_StoreFailureIs500 ==
    StoreFailed(last) =>
        /\ last.status = 500
        /\ last.message # last.err[1].message
        /\ last.status # 404

\* C8: a step keeps every row, with its short_code, original_url, created_at and
\* expires_at; a click_count stays or grows by 1, and grows only in the increment of
\* a GET handler that holds the row of a lookup that succeeded and then redirects;
\* steps of create, stats, QR and debug handlers change no existing row.
Unchanging(row) ==
    <<row.short_code, row.original_url, row.created_at, row.expires_at>>

C8_OnlyClicksChange ==
    [][ /\ Len(urls') >= Len(urls)
        /\ \A i \in DOMAIN urls :
            /\ Unchanging(urls'[i]) = Unchanging(urls[i])
            /\ urls'[i].click_count \in {urls[i].click_count, urls[i].click_count + 1}
            /\ urls'[i].click_count # urls[i].click_count =>
                \E r \in Reqs :
                    /\ req[r].kind = "redirect"
                    /\ req[r].code = urls[i].short_code
                    /\ req[r].row # None
                    /\ req[r].row[1].original_url = urls[i].original_url
                    /\ req'[r].pc = "send"
        /\ ( \/ \E r \in Reqs, parsed \in ShortenRequests : Shorten(r, parsed)
             \/ \E r \in Reqs : CreateGenerate(r) \/ CreateInsert(r)
             \/ \E r \in Reqs, c \in Codes : Stats(r, c) \/ Qr(r, c)
             \/ \E r \in Reqs : Debug(r) )
           => SubSeq(urls', 1, Len(urls)) = urls
    ]_vars

\* a create was answered the code of a row that has been clicked and has expired
C8_Witness ==
    /\ last.kind = "shorten" /\ last.status = 200
    /\ RowsByCode(urls, last.code) # {}
    /\ RowOf(last.code).click_count = 1
    /\ RowOf(last.code).expires_at # None
    /\ RowOf(last.code).created_at < now

\* C9: when the store answers, GET /api/stats/c answers 404 exactly when no row has
\* short code c, and otherwise 200 with the row's current short_code, original_url,
\* click_count, created_at and expires_at, whether or not the row is expired.
C9_StatsSnapshot ==
    (last.kind = "stats" /\ ~StoreFailed(last)) =>
        /\ last.status \in {200, 404}
        /\ last.status = 404 <=> RowsByCode(urls, last.code) = {}
        /\ last.status = 200 => last.rows = <<RowOf(last.code)>>

\* stats of an expired and clicked row
C9_Witness ==
    /\ last.kind = "stats" /\ last.status = 200
    /\ last.rows[1].expires_at # None
    /\ last.rows[1].expires_at[1] < now
    /\ last.rows[1].click_count = 1

RedirectStep(r, c) ==
    \/ Redirect(r, c)
    \/ (RedirectNext(r) \/ RedirectSend(r)) /\ req[r].code = c

C11_Ordering ==
    [][\A r \in Reqs, c \in Codes :
        RedirectStep(r, c) =>
            /\ IF req'[r] = Idle
               THEN /\ last'.kind = "redirect" /\ last'.code = c
                    /\ last'.status \in {302, 410, 404}
               ELSE /\ last' = NoResponse
                    /\ req'[r].kind = "redirect" /\ req'[r].code = c
            /\ last'.status = 302 =>
                    /\ req[r].pc = "send" /\ req[r].row # None /\ req[r].clicked
                    /\ urls' = urls
                    /\ redirects'[c] = redirects[c] + 1
                    /\ ClicksOf(urls, c) >= redirects'[c]
            /\ urls' # urls =>
                    /\ req[r].pc = "incrementClickCount" /\ req[r].row # None
                    /\ ~req[r].clicked /\ req'[r].clicked
                    /\ req'[r].pc = "send" /\ req'[r].row = req[r].row
                    /\ ClicksOf(urls', c) = ClicksOf(urls, c) + 1
            /\ (req[r].row # None /\ ~req[r].clicked /\ urls' = urls) =>
                    /\ last'.status = 404 /\ StoreFailed(last')
                    /\ req'[r] = Idle
                    /\ redirects' = redirects
    ]_vars

C11_Answered ==
    \A r \in Reqs : (req[r].kind = "redirect") ~> (req[r] = Idle)

C12_StaysExpired ==
    \A c \in Codes :
        firstExpired[c] # None =>
            /\ RowsByCode(urls, c) # {}
            /\ IsExpired(RowOf(c), now)
            /\ ClicksOf(urls, c) >= firstExpired[c][1].clicks
            /\ ClicksOf(urls, c) + Pending(c)
                    <= firstExpired[c][1].clicks + firstExpired[c][1].pending

C12_LaterRequests ==
    [][\A r \in Reqs, c \in Codes :
        firstExpired[c] # None =>
            /\ Redirect(r, c) =>
                    /\ last'.kind = "redirect" /\ last'.code = c
                    /\ last'.status = IF StoreFailed(last') THEN 404 ELSE 410
                    /\ req'[r] = Idle
                    /\ urls' = urls /\ redirects' = redirects
            /\ ( \/ \E parsed \in ShortenRequests : Shorten(r, parsed)
                 \/ CreateGenerate(r) \/ CreateInsert(r)
                 \/ \E k \in Codes : Stats(r, k) \/ Qr(r, k)
                 \/ \E k \in Codes \ {c} : Redirect(r, k)
                 \/ Debug(r) )
               => ClicksOf(urls', c) = ClicksOf(urls, c)
            /\ ClicksOf(urls', c) # ClicksOf(urls, c) =>
                    /\ ClicksOf(urls', c) = ClicksOf(urls, c) + 1
                    /\ Pending(c)' = Pending(c) - 1
    ]_vars

====
